---- MODULE Spec2Model ----
(***************************************************************************)
(* Task Manager (task_manager.py): the record codec, the flat-file store   *)
(* and the sessions that read and rewrite tasks.txt and user.txt.          *)
(*                                                                         *)
(* A string is a sequence of one-character strings, a file is the string   *)
(* of its bytes, and a date is a calendar day [year, month, day] (every    *)
(* datetime the program builds comes from strptime with "%d %b %Y" or      *)
(* from date.today(), so it has no time of day).                           *)
(***************************************************************************)
EXTENDS Integers, Sequences, FiniteSets, Bags, TLC

VARIABLES
    tasks_file,      \* contents of tasks.txt
    user_file,       \* contents of user.txt
    zero_pad_year,   \* whether the C library's strftime("%Y") pads years below 1000
    pc,              \* per session: where the session is in the program
    logged_in_user,  \* per session: the User returned by User.validate
    my_tasks,        \* per session: view_mine's sorted snapshot of the user's tasks
    upd,             \* per session: the locals of the Task.update call in progress
    screen,          \* per session: the last message the session showed
    user_data,       \* per session: reg_user's snapshot of the usernames
    report,          \* the numbers generate_reports wrote to task_overview.txt and user_overview.txt
    no_writer_since, \* per session: history, no other session wrote tasks.txt since this session's re-read
    appended,        \* history: the task lines add_task has appended, in order
    edits,           \* history: how many Task.update(original_task_string) calls have started
    cx,              \* the codec exercise: the value in hand and the step reached
    reporting        \* per session: the locals of generate_reports between its reads of tasks.txt

vars == <<tasks_file, user_file, zero_pad_year, pc, logged_in_user, my_tasks,
          upd, screen, user_data, report, no_writer_since, appended, edits, cx, reporting>>

-----------------------------------------------------------------------------
(* Strings *)

NL == "\n"
Delim == <<",", " ">>
Digits == <<"0", "1", "2", "3", "4", "5", "6", "7", "8", "9">>
UpperCase == <<"A", "B", "C", "D", "E", "F", "G", "H", "I", "J", "K", "L", "M",
               "N", "O", "P", "Q", "R", "S", "T", "U", "V", "W", "X", "Y", "Z">>
LowerCase == <<"a", "b", "c", "d", "e", "f", "g", "h", "i", "j", "k", "l", "m",
               "n", "o", "p", "q", "r", "s", "t", "u", "v", "w", "x", "y", "z">>
WhiteSpace == {" ", "\t", "\n", "\r"}

DigitSet == {Digits[i] : i \in 1..10}
DigitValues == [c \in DigitSet |-> (CHOOSE i \in 1..10 : Digits[i] = c) - 1]

IsDigit(c) == c \in DigitSet
DigitVal(c) == DigitValues[c]
DigitChar(n) == Digits[n + 1]

\* str.lower() of one character
LowerOf == [c \in {UpperCase[i] : i \in 1..26} |->
                LowerCase[CHOOSE i \in 1..26 : UpperCase[i] = c]]
Lower(c) == IF c \in DOMAIN LowerOf THEN LowerOf[c] ELSE c

StartsWith(s, pre) ==
    Len(s) >= Len(pre) /\ SubSeq(s, 1, Len(pre)) = pre

Drop(s, n) == SubSeq(s, n + 1, Len(s))

\* the positions at which sub occurs in s
Occurrences(s, sub) ==
    {i \in 1..(Len(s) - Len(sub) + 1) : \A j \in 1..Len(sub) : s[i + j - 1] = sub[j]}

\* sub in s
Contains(s, sub) == Occurrences(s, sub) # {}

\* the k-th smallest element of a set of numbers
Nth(set, k) == CHOOSE i \in set : Cardinality({j \in set : j < i}) = k - 1

\* the text of s before, between and after the separators of width w at positions occ
SplitAt(s, w, occ, n) ==
    [k \in 1..(n + 1) |->
        SubSeq(s, IF k = 1 THEN 1 ELSE Nth(occ, k - 1) + w,
                  IF k = n + 1 THEN Len(s) ELSE Nth(occ, k) - 1)]

SplitOn(s, w, occ) == SplitAt(s, w, occ, Cardinality(occ))

\* s.split(sep), for a separator that cannot overlap itself ("\n" and ", "); never empty
Split(s, sep) == SplitOn(s, Len(sep), Occurrences(s, sep))

\* sep.join(parts)
RECURSIVE Join(_, _)
Join(parts, sep) ==
    IF parts = <<>> THEN <<>>
    ELSE IF Len(parts) = 1 THEN parts[1]
         ELSE parts[1] \o sep \o Join(Tail(parts), sep)

-----------------------------------------------------------------------------
(* Dates: datetime.strptime and strftime with DATETIME_STRING_FORMAT *)

MonthAbbr == << <<"J", "a", "n">>, <<"F", "e", "b">>, <<"M", "a", "r">>,
                <<"A", "p", "r">>, <<"M", "a", "y">>, <<"J", "u", "n">>,
                <<"J", "u", "l">>, <<"A", "u", "g">>, <<"S", "e", "p">>,
                <<"O", "c", "t">>, <<"N", "o", "v">>, <<"D", "e", "c">> >>

LowerStr(s) == [i \in 1..Len(s) |-> Lower(s[i])]

IsLeap(y) == (y % 4 = 0 /\ y % 100 # 0) \/ y % 400 = 0

DaysInMonth(y, m) ==
    IF m = 2 THEN (IF IsLeap(y) THEN 29 ELSE 28)
    ELSE IF m \in {4, 6, 9, 11} THEN 30 ELSE 31

NoDate == [year |-> 0, month |-> 0, day |-> 0]
ValueError(why) == [exc |-> "ValueError", date |-> NoDate]

\* the length of the text that directive %d matches at the start of s (0: none):
\* 3[0-1] | [1-2]\d | 0[1-9] | [1-9] | " "[1-9]
DayWidth(s) ==
    IF /\ Len(s) >= 2
       /\ \/ s[1] = "3" /\ s[2] \in {"0", "1"}
          \/ s[1] \in {"1", "2"} /\ IsDigit(s[2])
          \/ s[1] = "0" /\ IsDigit(s[2]) /\ s[2] # "0"
          \/ s[1] = " " /\ IsDigit(s[2]) /\ s[2] # "0"
    THEN 2
    ELSE IF Len(s) >= 1 /\ IsDigit(s[1]) /\ s[1] # "0" THEN 1 ELSE 0

DayValue(tok) ==
    IF Len(tok) = 1 THEN DigitVal(tok[1])
    ELSE IF tok[1] = " " THEN DigitVal(tok[2])
         ELSE 10 * DigitVal(tok[1]) + DigitVal(tok[2])

\* the number of leading whitespace characters of s (the format's " " is \s+)
RECURSIVE SpaceWidth(_)
SpaceWidth(s) ==
    IF s # <<>> /\ Head(s) \in WhiteSpace THEN 1 + SpaceWidth(Tail(s)) ELSE 0

MonthAbbrLower == [m \in 1..12 |-> LowerStr(MonthAbbr[m])]

\* the month whose abbreviation starts s, whatever the case (0: none)
MonthAt(s) ==
    IF Len(s) < 3 THEN 0
    ELSE LET head == <<Lower(s[1]), Lower(s[2]), Lower(s[3])>>
         IN  IF \E m \in 1..12 : MonthAbbrLower[m] = head
             THEN CHOOSE m \in 1..12 : MonthAbbrLower[m] = head
             ELSE 0

\* datetime(year, month, day)
MakeDate(y, mo, d) ==
    IF y < 1 THEN ValueError("year out of range")
    ELSE IF d > DaysInMonth(y, mo) THEN ValueError("day is out of range for month")
    ELSE [exc |-> "none", date |-> [year |-> y, month |-> mo, day |-> d]]

\* %Y and the end of the text: \d\d\d\d, and nothing after it
ParseYear(d, mo, rest) ==
    IF Len(rest) < 4 \/ \E i \in 1..4 : ~IsDigit(rest[i])
    THEN ValueError("does not match format")
    ELSE IF Len(rest) > 4 THEN ValueError("unconverted data remains")
    ELSE MakeDate(1000 * DigitVal(rest[1]) + 100 * DigitVal(rest[2])
                  + 10 * DigitVal(rest[3]) + DigitVal(rest[4]), mo, d)

\* the format's " ": one or more whitespace characters, then what follows
ParseGap2(d, mo, rest, w) ==
    IF w = 0 THEN ValueError("does not match format") ELSE ParseYear(d, mo, Drop(rest, w))

\* %b
ParseMonth(d, rest, mo) ==
    IF mo = 0 THEN ValueError("does not match format")
    ELSE ParseGap2(d, mo, Drop(rest, 3), SpaceWidth(Drop(rest, 3)))

ParseGap1(d, rest, w) ==
    IF w = 0 THEN ValueError("does not match format")
    ELSE ParseMonth(d, Drop(rest, w), MonthAt(Drop(rest, w)))

\* %d
ParseDay(s, dw) ==
    IF dw = 0 THEN ValueError("does not match format")
    ELSE ParseGap1(DayValue(SubSeq(s, 1, dw)), Drop(s, dw), SpaceWidth(Drop(s, dw)))

\* datetime.strptime(s, "%d %b %Y")
strptime(s) == ParseDay(s, DayWidth(s))

\* the decimal digits of n, without padding
RECURSIVE Decimal(_)
Decimal(n) ==
    IF n < 10 THEN <<DigitChar(n)>> ELSE Append(Decimal(n \div 10), DigitChar(n % 10))

\* the decimal digits of n, zero-padded to width w
RECURSIVE Padded(_, _)
Padded(n, w) ==
    IF Len(Decimal(n)) >= w THEN Decimal(n) ELSE <<"0">> \o Padded(n, w - 1)

\* date.strftime("%d %b %Y"); the C library decides how %Y renders a year below 1000
strftime(dt) ==
    Padded(dt.day, 2) \o <<" ">> \o MonthAbbr[dt.month] \o <<" ">>
        \o (IF zero_pad_year THEN Padded(dt.year, 4) ELSE Decimal(dt.year))

-----------------------------------------------------------------------------
(* Record codec: class Task and class User *)

Yes == <<"Y", "e", "s">>
No == <<"N", "o">>

Task(username, title, description, due_date, assigned_date, completed) ==
    [username |-> username, title |-> title, description |-> description,
     due_date |-> due_date, assigned_date |-> assigned_date, completed |-> completed]

User(username, password) == [username |-> username, password |-> password]

NoTask == Task(<<>>, <<>>, <<>>, NoDate, NoDate, FALSE)
\* None: no string of characters equals this name
NoUser == User(<<"None">>, <<"None">>)

\* Task.from_string, from the split fields on: tasks[0..2], then the two dates,
\* then tasks[5]; the first failure is the exception raised
TaskFromDates(tasks, due, assigned) ==
    IF due.exc # "none" THEN [exc |-> "ValueError", task |-> NoTask]
    ELSE IF Len(tasks) < 5 THEN [exc |-> "IndexError", task |-> NoTask]
    ELSE IF assigned.exc # "none" THEN [exc |-> "ValueError", task |-> NoTask]
    ELSE IF Len(tasks) < 6 THEN [exc |-> "IndexError", task |-> NoTask]
    ELSE [exc |-> "none",
          task |-> Task(tasks[1], tasks[2], tasks[3], due.date, assigned.date,
                        tasks[6] = Yes)]

TaskFromFields(tasks) ==
    IF Len(tasks) < 4 THEN [exc |-> "IndexError", task |-> NoTask]
    ELSE TaskFromDates(tasks, strptime(tasks[4]),
                       IF Len(tasks) >= 5 THEN strptime(tasks[5]) ELSE ValueError(""))

\* Task.from_string: the exception raised, if any, and the Task built
Task_from_string(task_str) == TaskFromFields(Split(task_str, Delim))

\* Task.to_string
Task_to_string(t) ==
    Join(<<t.username, t.title, t.description, strftime(t.due_date),
           strftime(t.assigned_date), IF t.completed THEN Yes ELSE No>>, Delim)

UserFromFields(user) ==
    IF Len(user) < 2 THEN [exc |-> "IndexError", user |-> NoUser]
    ELSE [exc |-> "none", user |-> User(user[1], user[2])]

\* User.from_string
User_from_string(user_str) == UserFromFields(Split(user_str, Delim))

\* User.to_string
User_to_string(u) == Join(<<u.username, u.password>>, Delim)

\* validate_string with its test left out
validate_string_accepts_all(input_str) == TRUE

\* validate_string: True when the input is safe to store
validate_string(input_str) == ~Contains(input_str, Delim)

-----------------------------------------------------------------------------
(* Store reads: get_all_task_data and get_all_user_data *)

\* the loop over the lines: the first line that raises ends the read
CollectTasks(results) ==
    IF \E i \in 1..Len(results) : results[i].exc # "none"
    THEN [exc |-> results[Nth({i \in 1..Len(results) : results[i].exc # "none"}, 1)].exc,
          tasks |-> <<>>]
    ELSE [exc |-> "none", tasks |-> [i \in 1..Len(results) |-> results[i].task]]

DecodeTasks(lines) == CollectTasks([i \in 1..Len(lines) |-> Task_from_string(lines[i])])

get_all_task_data(file) == DecodeTasks(Split(file, <<NL>>))

CollectUsers(results) ==
    IF \E i \in 1..Len(results) : results[i].exc # "none"
    THEN [exc |-> results[Nth({i \in 1..Len(results) : results[i].exc # "none"}, 1)].exc,
          users |-> <<>>]
    ELSE [exc |-> "none", users |-> [i \in 1..Len(results) |-> results[i].user]]

DecodeUsers(lines) == CollectUsers([i \in 1..Len(lines) |-> User_from_string(lines[i])])

get_all_user_data(file) == DecodeUsers(Split(file, <<NL>>))

\* [user.username for user in get_all_user_data()]
UsernamesOf(users) == {users[i].username : i \in 1..Len(users)}
Usernames(file) == UsernamesOf(get_all_user_data(file).users)

-----------------------------------------------------------------------------
(* Bounds: the tasks add_task may append, the edits the sessions may start, *)
(* and the lines user.txt may grow to                                       *)

MaxAppends == 1
MaxEdits == 3
MaxUsers == 3

-----------------------------------------------------------------------------
(* Sessions *)

Procs == {1, 2}

NoUpdate == [original_task_string |-> <<>>, self |-> NoTask, task_list |-> <<>>,
             new_task_list |-> <<>>, task_data |-> <<>>]
\* task_overview.txt and user_overview.txt before generate_reports has written them
NoReport == [written |-> FALSE, total_tasks |-> 0, total_completed_tasks |-> 0,
             total_uncompleted_tasks |-> 0, total_overdue_tasks |-> 0,
             percentage_of_incomplete_tasks |-> 0, percentage_of_overdue_tasks |-> 0,
             total_users |-> 0, user_statistics |-> <<>>]

\* generate_reports: the users still to report on, the count of users, the list
\* User.stats has read as total_tasks, and the statistics collected so far
NoReporting == [user_data |-> <<>>, total_users |-> 0, total_tasks |-> <<>>,
                user_statistics |-> <<>>]

\* the program started on the terminals in started, each at the login prompt
SessionsAt(started) ==
    /\ pc = [p \in Procs |-> IF p \in started THEN "login" ELSE "off"]
    /\ logged_in_user = [p \in Procs |-> NoUser]
    /\ my_tasks = [p \in Procs |-> <<>>]
    /\ upd = [p \in Procs |-> NoUpdate]
    /\ screen = [p \in Procs |-> <<>>]
    /\ user_data = [p \in Procs |-> {}]
    /\ report = NoReport
    /\ no_writer_since = [p \in Procs |-> TRUE]
    /\ appended = <<>>
    /\ edits = 0
    /\ reporting = [p \in Procs |-> NoReporting]

SessionsAtLogin == SessionsAt(Procs)

session_vars == <<pc, logged_in_user, my_tasks, upd, screen, user_data, report,
                  no_writer_since, appended, edits, reporting>>

-----------------------------------------------------------------------------
(* The codec on its own: encode then decode a record, decode a raw line, *)
(* and read a whole file                                                  *)

D(y, m, d) == [year |-> y, month |-> m, day |-> d]

CodecStrings == {<<>>, <<"a">>, <<"a", ",">>, <<" ", "b">>, <<",">>, <<" ">>}
CodecDates == {D(2030, 1, 1), D(2024, 2, 29), D(999, 12, 31)}

\* the valid records: no string field holds the delimiter
CodecTasks ==
    {Task(u, t, <<"d">>, due, D(2026, 11, 1), c) :
        u \in CodecStrings, t \in CodecStrings, due \in CodecDates, c \in BOOLEAN}
CodecUsers == {User(u, w) : u \in CodecStrings, w \in CodecStrings}

Str_01Jan2030 == <<"0", "1", " ", "J", "a", "n", " ", "2", "0", "3", "0">>
Str_1jan2030 == <<"1", " ", "j", "a", "n", " ", "2", "0", "3", "0">>
Str_31Feb2030 == <<"3", "1", " ", "F", "e", "b", " ", "2", "0", "3", "0">>
Str_Iso == <<"2", "0", "3", "0", "-", "0", "1", "-", "0", "1">>
Str_01Nov2026 == <<"0", "1", " ", "N", "o", "v", " ", "2", "0", "2", "6">>

\* raw task lines: field lists of 1, 5, 6 and 7 fields, the date and completed fields varied
CodecTaskFields ==
    {<< <<"a">>, <<"T">>, <<"d">>, due, Str_01Nov2026, c >> :
        due \in {Str_01Jan2030, Str_1jan2030, Str_31Feb2030, Str_Iso},
        c \in {Yes, No, <<"y", "e", "s">>, <<"M", "a", "y", "b", "e">>, <<>>}}
    \cup {<< <<"a">>, <<"T">>, <<"d">>, Str_01Jan2030, Str_01Nov2026 >>,
          << <<"a">>, <<"T">>, <<"d">>, Str_01Jan2030, Str_01Nov2026, No, <<"x">> >>,
          << <<"a">>, <<"T">>, <<"d">>, Str_01Jan2030, Str_Iso, Yes, <<"x">> >>,
          << <<"a">>, <<"T">> >>,
          << <<>> >>}
CodecTaskLines == {Join(f, Delim) : f \in CodecTaskFields}

CodecUserLines ==
    {Join(f, Delim) : f \in {<< <<>> >>, << <<"a">> >>, << <<"a">>, <<"p">> >>,
                             << <<"a">>, <<"p">>, <<"x">> >>, << <<"a">>, <<>> >>}}

CodecLine == Join(<< <<"a">>, <<"T">>, <<"d">>, Str_01Jan2030, Str_01Nov2026, No >>, Delim)
CodecLine2 == Join(<< <<"b">>, <<"U">>, <<"d">>, Str_01Jan2030, Str_01Nov2026, Yes >>, Delim)

\* tasks.txt: empty, one line, a trailing blank line, a leading blank line, two lines,
\* a blank line between two lines, and an unreadable line
CodecTaskFiles ==
    {<<>>, CodecLine, CodecLine \o <<NL>>, <<NL>> \o CodecLine,
     CodecLine \o <<NL>> \o CodecLine2,
     CodecLine \o <<NL, NL>> \o CodecLine2,
     CodecLine \o <<NL>> \o <<"a">>}

CodecUserLine == Join(<< <<"a">>, <<"p">> >>, Delim)
CodecUserFiles ==
    {<<>>, CodecUserLine, CodecUserLine \o <<NL>>,
     CodecUserLine \o <<NL>> \o CodecUserLine}

NoCodec == [step |-> "start", kind |-> "none", rec |-> NoTask, line |-> <<>>,
            got |-> [exc |-> "none"]]

EncodeTask ==
    /\ cx.step = "start"
    /\ \E r \in CodecTasks :
         cx' = [step |-> "encoded", kind |-> "task", rec |-> r,
                line |-> Task_to_string(r), got |-> [exc |-> "none"]]
    /\ UNCHANGED <<tasks_file, user_file, zero_pad_year, session_vars>>

EncodeUser ==
    /\ cx.step = "start"
    /\ \E r \in CodecUsers :
         cx' = [step |-> "encoded", kind |-> "user", rec |-> r,
                line |-> User_to_string(r), got |-> [exc |-> "none"]]
    /\ UNCHANGED <<tasks_file, user_file, zero_pad_year, session_vars>>

DecodeEncoded ==
    /\ cx.step = "encoded"
    /\ cx' = [cx EXCEPT !.step = "decoded",
                        !.got = IF cx.kind = "task" THEN Task_from_string(cx.line)
                                ELSE User_from_string(cx.line)]
    /\ UNCHANGED <<tasks_file, user_file, zero_pad_year, session_vars>>

DecodeTaskLine ==
    /\ cx.step = "start"
    /\ \E l \in CodecTaskLines :
         cx' = [step |-> "parsed", kind |-> "task", rec |-> NoTask, line |-> l,
                got |-> Task_from_string(l)]
    /\ UNCHANGED <<tasks_file, user_file, zero_pad_year, session_vars>>

DecodeUserLine ==
    /\ cx.step = "start"
    /\ \E l \in CodecUserLines :
         cx' = [step |-> "parsed", kind |-> "user", rec |-> NoUser, line |-> l,
                got |-> User_from_string(l)]
    /\ UNCHANGED <<tasks_file, user_file, zero_pad_year, session_vars>>

\* get_all_task_data on a file
ReadTaskFile ==
    /\ cx.step = "start"
    /\ \E f \in CodecTaskFiles :
         cx' = [step |-> "read", kind |-> "task", rec |-> NoTask, line |-> f,
                got |-> get_all_task_data(f)]
    /\ UNCHANGED <<tasks_file, user_file, zero_pad_year, session_vars>>

\* get_all_user_data on a file
ReadUserFile ==
    /\ cx.step = "start"
    /\ \E f \in CodecUserFiles :
         cx' = [step |-> "read", kind |-> "user", rec |-> NoUser, line |-> f,
                got |-> get_all_user_data(f)]
    /\ UNCHANGED <<tasks_file, user_file, zero_pad_year, session_vars>>

InitCodec ==
    /\ tasks_file = <<>>
    /\ user_file = <<>>
    /\ zero_pad_year \in BOOLEAN
    /\ SessionsAtLogin
    /\ cx = NoCodec

NextCodec ==
    \/ EncodeTask
    \/ EncodeUser
    \/ DecodeEncoded
    \/ DecodeTaskLine
    \/ DecodeUserLine
    \/ ReadTaskFile
    \/ ReadUserFile

SpecCodec == InitCodec /\ [][NextCodec]_vars

-----------------------------------------------------------------------------
(* Task lists: sort_tasks and User.tasks *)

DateKey(d) == d.year * 10000 + d.month * 100 + d.day

\* x placed before the pairs whose key equals x's key: a sort that is not stable
RECURSIVE InsertDescUnstable(_, _)
InsertDescUnstable(sorted, x) ==
    IF sorted = <<>> THEN <<x>>
    ELSE IF Head(sorted).key > x.key
         THEN <<Head(sorted)>> \o InsertDescUnstable(Tail(sorted), x)
         ELSE <<x>> \o sorted

\* x placed after every pair whose key is at least x's key
RECURSIVE InsertDesc(_, _)
InsertDesc(sorted, x) ==
    IF sorted = <<>> THEN <<x>>
    ELSE IF Head(sorted).key >= x.key
         THEN <<Head(sorted)>> \o InsertDesc(Tail(sorted), x)
         ELSE <<x>> \o sorted

\* sorted(pairs, key=..., reverse=True): descending, equal keys keep their order
RECURSIVE SortedDesc(_)
SortedDesc(pairs) ==
    IF pairs = <<>> THEN <<>>
    ELSE InsertDesc(SortedDesc(SubSeq(pairs, 1, Len(pairs) - 1)), pairs[Len(pairs)])

Values(pairs) == [i \in 1..Len(pairs) |-> pairs[i].val]

\* sort_tasks without its first sort
SortByDueDateSkipped(task_list) == task_list

\* sorted(task_list, key=lambda x: x.due_date, reverse=True)
SortByDueDate(task_list) ==
    Values(SortedDesc([i \in 1..Len(task_list) |->
              [key |-> DateKey(task_list[i].due_date), val |-> task_list[i]]]))

\* sort_tasks without its second sort
SortByCompletedSkipped(task_list) == task_list

\* sorted(task_list, key=lambda x: x.completed, reverse=True)
SortByCompleted(task_list) ==
    Values(SortedDesc([i \in 1..Len(task_list) |->
              [key |-> IF task_list[i].completed THEN 1 ELSE 0, val |-> task_list[i]]]))

sort_tasks(task_list) == SortByCompleted(SortByDueDate(task_list))

\* User.tasks without its filter on the username
User_tasks_of_all(user, task_list) == task_list

\* User.tasks applied to a decoded task list
User_tasks(user, task_list) ==
    SelectSeq(task_list, LAMBDA t : t.username = user.username)

\* User.validate: the first stored user with this name and password, or NoUser (None)
FirstOr(hits, none) == IF hits = <<>> THEN none ELSE hits[1]
User_validate(username, password, users) ==
    FirstOr(SelectSeq(users, LAMBDA u : u.username = username /\ u.password = password),
            NoUser)

-----------------------------------------------------------------------------
(* File writes *)

\* "a" mode: the text lands at the end of the file in one write
AppendTo(file, text) == file \o text

\* "w" mode, at close: the text is written from offset 0 over whatever the file
\* has come to hold since this handle's open truncated it
WriteOver(file, text) ==
    IF Len(file) > Len(text) THEN text \o Drop(file, Len(text)) ELSE text

\* a write to tasks.txt by session p, recorded for every other session that is
\* inside Task.update or has just left it: no_writer_since[q] says that no other
\* session has written the file since q's re-read
Wrote(p) ==
    [q \in Procs |->
        IF q # p /\ pc[q] \in {"update_open", "update_write", "view_mine"} THEN FALSE
        ELSE no_writer_since[q]]

-----------------------------------------------------------------------------
(* Inputs the sessions type *)

Str_admin == <<"a", "d", "m", "i", "n">>
Str_adm1n == <<"a", "d", "m", "1", "n">>
Str_al == <<"a", "l">>
Str_pw == <<"p", "w">>
Str_alice == <<"a", "l", "i", "c", "e">>
Str_pw1 == <<"p", "w", "1">>
Str_05Jan2030 == <<"0", "5", " ", "J", "a", "n", " ", "2", "0", "3", "0">>

\* date.today()
Today == D(2026, 11, 1)

\* user.txt as the program creates it, and a deployment's files with two users and one task
DefaultUsers == Join(<<Str_admin, Str_adm1n>>, Delim)
SeedUsers == DefaultUsers \o <<NL>> \o Join(<<Str_al, Str_pw>>, Delim)
SeedTasks ==
    Join(<<Str_al, <<"T", "1">>, <<"d">>, Str_01Jan2030, Str_01Nov2026, No>>, Delim)

LoginInputs == {<<Str_admin, Str_adm1n>>, <<Str_al, Str_pw>>, <<Str_al, Str_adm1n>>,
                <<Str_alice, Str_pw1>>}
NameInputs == {Str_admin, <<"g", "h", "o", "s", "t">>}
TitleInputs == {<<"T", "3">>, <<"T", ",", " ", "3">>}
DateInputs == {Str_05Jan2030, Str_Iso}
OwnerInputs == {Str_al, Str_alice, <<"g", "h", "o", "s", "t">>}
NewNameInputs == {Str_alice, Str_admin, <<"a", ",", " ", "b">>}
PasswordInputs == {Str_pw1, <<"p", ",", " ">>}
ReportInputs == {<<"1">>, <<"2">>, <<"3">>, <<"x">>}
DueInputs == {Str_05Jan2030, Str_Iso}
DescriptionInputs == {<<"d">>, <<"d", ",", " ", "e">>}


-----------------------------------------------------------------------------
(* Task.update and the methods that call it *)

\* a Task object defines no __eq__: it never compares equal to a str
TaskEqualsStr(task, str) == FALSE

\* task_list != new_task_list, a list of Task objects against a list of str
PyListNe(task_list, new_task_list) ==
    \/ Len(task_list) # Len(new_task_list)
    \/ \E i \in 1..Len(task_list) : ~TaskEqualsStr(task_list[i], new_task_list[i])

\* the uncaught exception ends the program
Crash(p, exc) ==
    /\ pc' = [pc EXCEPT ![p] = "crashed"]
    /\ screen' = [screen EXCEPT ![p] = <<exc>>]

\* Task.update: the candidate list
Candidate(task_list, self, original_task_string) ==
    [i \in 1..Len(task_list) |->
        IF original_task_string = Task_to_string(task_list[i])
        THEN Task_to_string(self)
        ELSE Task_to_string(task_list[i])]

\* Task.update: the comparison of the candidate list with the list just read
UpdateCompare(p, locals) ==
    IF PyListNe(locals.task_list, locals.new_task_list)
    THEN /\ pc' = [pc EXCEPT ![p] = "update_open"]
         /\ upd' = [upd EXCEPT ![p] = locals]
         /\ screen' = [screen EXCEPT ![p] = <<>>]
    ELSE /\ pc' = [pc EXCEPT ![p] = "view_mine"]
         /\ upd' = [upd EXCEPT ![p] = locals]
         /\ screen' = [screen EXCEPT ![p] = <<"problem", "success">>]

UpdateRead(p, self, original_task_string, in_try, read) ==
    /\ edits < MaxEdits
    /\ IF read.exc = "ValueError" /\ in_try
       THEN /\ pc' = pc
            /\ upd' = [upd EXCEPT ![p] = [NoUpdate EXCEPT !.self = self]]
            /\ screen' = [screen EXCEPT ![p] = <<"invalid_datetime">>]
       ELSE IF read.exc # "none"
       THEN /\ Crash(p, read.exc)
            /\ upd' = [upd EXCEPT ![p] = NoUpdate]
       ELSE UpdateCompare(p, [original_task_string |-> original_task_string,
                              self |-> self,
                              task_list |-> read.tasks,
                              new_task_list |->
                                  Candidate(read.tasks, self, original_task_string),
                              task_data |-> tasks_file])
    /\ no_writer_since' = [no_writer_since EXCEPT ![p] = TRUE]
    /\ edits' = edits + 1
    /\ UNCHANGED <<tasks_file, user_file, zero_pad_year, logged_in_user, my_tasks,
                   user_data, report, appended, cx, reporting>>

\* Task.update(original_task_string), up to the decision to write: the re-read of
\* tasks.txt, the candidate list and the comparison. in_try: the caller catches ValueError
Task_update(p, self, original_task_string, in_try) ==
    UpdateRead(p, self, original_task_string, in_try, get_all_task_data(tasks_file))

\* Task.update: open("tasks.txt", "w") truncates the file
UpdateOpen(p) ==
    /\ pc[p] = "update_open"
    /\ tasks_file' = <<>>
    /\ pc' = [pc EXCEPT ![p] = "update_write"]
    /\ no_writer_since' = Wrote(p)
    /\ UNCHANGED <<user_file, zero_pad_year, logged_in_user, my_tasks, upd, screen,
                   user_data, report, appended, edits, cx, reporting>>

\* Task.update: the candidate list is written as the handle closes, then "Success"
UpdateWrite(p) ==
    /\ pc[p] = "update_write"
    /\ tasks_file' = WriteOver(tasks_file, Join(upd[p].new_task_list, <<NL>>))
    /\ pc' = [pc EXCEPT ![p] = "view_mine"]
    /\ screen' = [screen EXCEPT ![p] = <<"success">>]
    /\ no_writer_since' = Wrote(p)
    /\ UNCHANGED <<user_file, zero_pad_year, logged_in_user, my_tasks, upd,
                   user_data, report, appended, edits, cx, reporting>>

\* Task.mark_complete
Task_mark_complete(p, task) ==
    Task_update(p, [task EXCEPT !.completed = TRUE], Task_to_string(task), FALSE)

\* Task.update_assignee without its look-up of new_username in user.txt
Task_update_assignee_unchecked(p, task, new_username) ==
    Task_update(p, [task EXCEPT !.username = new_username], Task_to_string(task), FALSE)

\* Task.update_assignee
Task_update_assignee(p, task, new_username) ==
    IF new_username \in Usernames(user_file)
    THEN Task_update(p, [task EXCEPT !.username = new_username], Task_to_string(task), FALSE)
    ELSE /\ screen' = [screen EXCEPT ![p] = <<"no_such_user">>]
         /\ pc' = [pc EXCEPT ![p] = "view_mine"]
         /\ UNCHANGED <<tasks_file, user_file, zero_pad_year, logged_in_user, my_tasks,
                        upd, user_data, report, no_writer_since, appended, edits, cx, reporting>>

\* Task.update_due_date
Task_update_due_date(p, task, new_due_date, in_try) ==
    Task_update(p, [task EXCEPT !.due_date = new_due_date], Task_to_string(task), in_try)

-----------------------------------------------------------------------------
(* The login loop and the menu commands *)

LoginAs(p, user) ==
    IF user # NoUser
    THEN /\ logged_in_user' = [logged_in_user EXCEPT ![p] = user]
         /\ pc' = [pc EXCEPT ![p] = "menu"]
         /\ screen' = [screen EXCEPT ![p] = <<>>]
    ELSE /\ screen' = [screen EXCEPT ![p] = <<"login_failed">>]
         /\ UNCHANGED <<pc, logged_in_user>>

\* the login loop; user.txt is readable in every reachable state, so User.validate
\* does not raise
Login(p) ==
    /\ pc[p] = "login"
    /\ \E in \in LoginInputs : LoginAs(p, User_validate(in[1], in[2], get_all_user_data(user_file).users))
    /\ UNCHANGED <<tasks_file, user_file, zero_pad_year, my_tasks, upd, user_data,
                   report, no_writer_since, appended, edits, cx, reporting>>

\* Task.update(): the new task's line is appended
Task_create(line) ==
    /\ tasks_file' = AppendTo(tasks_file, <<NL>> \o line)
    /\ appended' = Append(appended, line)

\* add_task: each prompt repeats until its input is accepted, then the task is appended
add_task(p) ==
    /\ pc[p] = "menu"
    /\ Len(appended) < MaxAppends
    /\ \E task_username \in OwnerInputs, task_title \in TitleInputs,
          task_description \in DescriptionInputs, task_due_date \in DueInputs :
         /\ task_username \in Usernames(user_file)
         /\ validate_string(task_title)
         /\ validate_string(task_description)
         /\ strptime(task_due_date).exc = "none"
         /\ Task_create(Task_to_string(Task(task_username, task_title, task_description,
                                            strptime(task_due_date).date, Today, FALSE)))
    /\ screen' = [screen EXCEPT ![p] = <<"success">>]
    /\ no_writer_since' = Wrote(p)
    /\ UNCHANGED <<user_file, zero_pad_year, pc, logged_in_user, my_tasks, upd,
                   user_data, report, edits, cx, reporting>>

ViewSorted(p, mine) ==
    IF mine = <<>>
    THEN /\ pc' = [pc EXCEPT ![p] = "menu"]
         /\ screen' = [screen EXCEPT ![p] = <<"no_tasks">>]
         /\ my_tasks' = [my_tasks EXCEPT ![p] = <<>>]
    ELSE /\ pc' = [pc EXCEPT ![p] = "select"]
         /\ screen' = [screen EXCEPT ![p] = <<>>]
         /\ my_tasks' = [my_tasks EXCEPT ![p] = mine]

ViewLoaded(p, read) ==
    IF read.exc # "none"
    THEN Crash(p, read.exc) /\ UNCHANGED my_tasks
    ELSE ViewSorted(p, sort_tasks(User_tasks(logged_in_user[p], read.tasks)))

\* view_mine, the top of its loop: the user's tasks are loaded from tasks.txt
view_mine(p) ==
    /\ pc[p] \in {"menu", "view_mine"}
    /\ ViewLoaded(p, get_all_task_data(tasks_file))
    /\ upd' = [upd EXCEPT ![p] = NoUpdate]
    /\ no_writer_since' = [no_writer_since EXCEPT ![p] = TRUE]
    /\ UNCHANGED <<tasks_file, user_file, zero_pad_year, logged_in_user, user_data,
                   report, appended, edits, cx, reporting>>

\* view_mine: -1 at the task prompt
SelectBack(p) ==
    /\ pc[p] = "select"
    /\ pc' = [pc EXCEPT ![p] = "menu"]
    /\ UNCHANGED <<tasks_file, user_file, zero_pad_year, logged_in_user, my_tasks, upd,
                   screen, user_data, report, no_writer_since, appended, edits, cx, reporting>>

\* view_mine: a task is selected, then a choice other than c or e
SelectNothing(p) ==
    /\ pc[p] = "select"
    /\ pc' = [pc EXCEPT ![p] = "view_mine"]
    /\ UNCHANGED <<tasks_file, user_file, zero_pad_year, logged_in_user, my_tasks, upd,
                   screen, user_data, report, no_writer_since, appended, edits, cx, reporting>>

\* view_mine: c
SelectComplete(p) ==
    /\ pc[p] = "select"
    /\ \E option \in 1..Len(my_tasks[p]) :
         Task_mark_complete(p, my_tasks[p][option])

\* view_mine: e on a completed task
SelectEditCompleted(p) ==
    /\ pc[p] = "select"
    /\ \E option \in 1..Len(my_tasks[p]) : my_tasks[p][option].completed
    /\ pc' = [pc EXCEPT ![p] = "view_mine"]
    /\ screen' = [screen EXCEPT ![p] = <<"not_editable">>]
    /\ UNCHANGED <<tasks_file, user_file, zero_pad_year, logged_in_user, my_tasks, upd,
                   user_data, report, no_writer_since, appended, edits, cx, reporting>>

\* view_mine: e then u; the prompt repeats until the name is a stored username
SelectEditAssignee(p) ==
    /\ pc[p] = "select"
    /\ \E option \in 1..Len(my_tasks[p]), new_assignee \in NameInputs :
         /\ ~my_tasks[p][option].completed
         /\ new_assignee \in Usernames(user_file)
         /\ Task_update_assignee(p, my_tasks[p][option], new_assignee)

\* view_mine: e then d, up to the date prompt
SelectEditDueDate(p) ==
    /\ pc[p] = "select"
    /\ \E option \in 1..Len(my_tasks[p]) :
         /\ ~my_tasks[p][option].completed
         /\ upd' = [upd EXCEPT ![p] = [NoUpdate EXCEPT !.self = my_tasks[p][option]]]
    /\ pc' = [pc EXCEPT ![p] = "due_date"]
    /\ UNCHANGED <<tasks_file, user_file, zero_pad_year, logged_in_user, my_tasks,
                   screen, user_data, report, no_writer_since, appended, edits, cx, reporting>>

\* view_mine: a date is entered at the date prompt, inside try ... except ValueError
EnterDueDate(p) ==
    /\ pc[p] = "due_date"
    /\ \E new_due_date \in DateInputs :
         IF strptime(new_due_date).exc # "none"
         THEN /\ screen' = [screen EXCEPT ![p] = <<"invalid_datetime">>]
              /\ UNCHANGED <<tasks_file, user_file, zero_pad_year, pc, logged_in_user,
                             my_tasks, upd, user_data, report, no_writer_since,
                             appended, edits, cx, reporting>>
         ELSE Task_update_due_date(p, upd[p].self, strptime(new_due_date).date, TRUE)

-----------------------------------------------------------------------------
(* reg_user, view_all, generate_reports, display_statistics, exit *)

\* reg_user, admin: the usernames are read once, before the prompts
reg_user(p) ==
    /\ pc[p] = "menu"
    /\ logged_in_user[p].username = Str_admin
    /\ Len(Split(user_file, <<NL>>)) < MaxUsers
    /\ IF get_all_user_data(user_file).exc # "none"
       THEN Crash(p, get_all_user_data(user_file).exc) /\ UNCHANGED user_data
       ELSE /\ user_data' = [user_data EXCEPT ![p] = Usernames(user_file)]
            /\ pc' = [pc EXCEPT ![p] = "reg_user"]
            /\ screen' = [screen EXCEPT ![p] = <<>>]
    /\ UNCHANGED <<tasks_file, user_file, zero_pad_year, logged_in_user, my_tasks, upd,
                   report, no_writer_since, appended, edits, cx, reporting>>

\* reg_user: each prompt repeats until its input is accepted, then User.new appends
User_new(p) ==
    /\ pc[p] = "reg_user"
    /\ \E new_username \in NewNameInputs, new_password \in PasswordInputs :
         /\ new_username \notin user_data[p]
         /\ validate_string(new_username)
         /\ validate_string(new_password)
         /\ user_file' = AppendTo(user_file,
                                  <<NL>> \o User_to_string(User(new_username, new_password)))
    /\ pc' = [pc EXCEPT ![p] = "menu"]
    /\ screen' = [screen EXCEPT ![p] = <<"user_added">>]
    /\ UNCHANGED <<tasks_file, zero_pad_year, logged_in_user, my_tasks, upd, user_data,
                   report, no_writer_since, appended, edits, cx, reporting>>

\* view_all
view_all(p) ==
    /\ pc[p] = "menu"
    /\ IF get_all_task_data(tasks_file).exc # "none"
       THEN Crash(p, get_all_task_data(tasks_file).exc)
       ELSE /\ screen' = [screen EXCEPT ![p] = <<"all_tasks">>]
            /\ pc' = pc
    /\ UNCHANGED <<tasks_file, user_file, zero_pad_year, logged_in_user, my_tasks, upd,
                   user_data, report, no_writer_since, appended, edits, cx, reporting>>

\* n / d rounded to an integer, ties to even
RoundHalfEven(n, d) ==
    IF 2 * (n % d) > d \/ (2 * (n % d) = d /\ (n \div d) % 2 = 1)
    THEN (n \div d) + 1
    ELSE n \div d

\* f"{(num / den) * 100:.1f}", in tenths of a percent
Tenths(num, den) == RoundHalfEven(num * 1000, den)

\* t.due_date < datetime.now(): a due date is the midnight that starts its day
Overdue(t) == DateKey(t.due_date) <= DateKey(Today)

Completed(task_list) == SelectSeq(task_list, LAMBDA t : t.completed)
Uncompleted(task_list) == SelectSeq(task_list, LAMBDA t : ~t.completed)
\* the overdue filter without its test of t.completed
OverdueTasksAnyStatus(task_list) == SelectSeq(task_list, LAMBDA t : Overdue(t))

OverdueTasks(task_list) == SelectSeq(task_list, LAMBDA t : Overdue(t) /\ ~t.completed)

\* User.stats: the keys it always sets; the percentage of all tasks is round(.., 2),
\* in hundredths
StatsTotals(total_tasks, total_user_tasks) ==
    [total_tasks |-> Len(total_tasks),
     total_user_tasks |-> Len(total_user_tasks),
     percentage_of_total_tasks |->
         RoundHalfEven(Len(total_user_tasks) * 10000, Len(total_tasks))]

\* User.stats: the keys it sets when the user has a task, in tenths as
\* generate_reports prints them
StatsPercentages(total_user_tasks) ==
    [percentage_tasks_completed |->
         Tenths(Len(Completed(total_user_tasks)), Len(total_user_tasks)),
     percentage_pending_tasks |->
         Tenths(Len(Uncompleted(total_user_tasks)), Len(total_user_tasks)),
     percentage_overdue_tasks |->
         Tenths(Len(OverdueTasks(total_user_tasks)), Len(total_user_tasks))]

PercentageKeys ==
    {"percentage_tasks_completed", "percentage_pending_tasks", "percentage_overdue_tasks"}

\* User.stats with the three percentages set for every user, 0 for a user without tasks
StatsOfAllKeys(username, total_tasks, total_user_tasks) ==
    [username |-> username]
        @@ StatsTotals(total_tasks, total_user_tasks)
        @@ (IF total_user_tasks = <<>> THEN [k \in PercentageKeys |-> 0]
            ELSE StatsPercentages(total_user_tasks))

\* User.stats: stats_dict, kept with the name of the user it is about
StatsOf(username, total_tasks, total_user_tasks) ==
    IF total_user_tasks = <<>>
    THEN [username |-> username] @@ StatsTotals(total_tasks, total_user_tasks)
    ELSE [username |-> username] @@ StatsTotals(total_tasks, total_user_tasks)
             @@ StatsPercentages(total_user_tasks)

User_stats(user, task_list) == StatsOf(user.username, task_list, User_tasks(user, task_list))

\* generate_reports: the four counts it takes of task_list before it divides
TaskCounts(task_list) ==
    [total_tasks |-> Len(task_list),
     total_completed_tasks |-> Len(Completed(task_list)),
     total_uncompleted_tasks |-> Len(Uncompleted(task_list)),
     total_overdue_tasks |-> Len(OverdueTasks(task_list))]

\* generate_reports: what it writes to task_overview.txt
TaskOverview(task_list) ==
    [report EXCEPT
        !.written = TRUE,
        !.total_tasks = Len(task_list),
        !.total_completed_tasks = Len(Completed(task_list)),
        !.total_uncompleted_tasks = Len(Uncompleted(task_list)),
        !.total_overdue_tasks = Len(OverdueTasks(task_list)),
        !.percentage_of_incomplete_tasks = Tenths(Len(Uncompleted(task_list)), Len(task_list)),
        !.percentage_of_overdue_tasks = Tenths(Len(OverdueTasks(task_list)), Len(task_list))]

\* generate_reports: the confirmation prompt, or display_statistics' menu
ReportsDone(p, confirmation) ==
    IF confirmation
    THEN /\ screen' = [screen EXCEPT ![p] = <<"reports_generated">>]
         /\ pc' = pc
    ELSE /\ screen' = [screen EXCEPT ![p] = <<>>]
         /\ pc' = [pc EXCEPT ![p] = "statistics"]

\* generate_reports: what it writes to user_overview.txt
UserOverview(p, confirmation, overview, task_list, read) ==
    IF read.exc # "none"
    THEN Crash(p, read.exc) /\ report' = overview
    ELSE /\ report' = [overview EXCEPT
                          !.total_users = Len(read.users),
                          !.user_statistics =
                              [i \in 1..Len(read.users) |->
                                  User_stats(read.users[i], task_list)]]
         /\ ReportsDone(p, confirmation)

ReportsRead(p, confirmation, read) ==
    IF read.exc # "none"
    THEN Crash(p, read.exc) /\ UNCHANGED report
    ELSE IF read.tasks = <<>>
    THEN Crash(p, "ZeroDivisionError") /\ UNCHANGED report
    ELSE UserOverview(p, confirmation, TaskOverview(read.tasks), read.tasks,
                      get_all_user_data(user_file))

ReportsWritten(p, confirmation) ==
    /\ ReportsRead(p, confirmation, get_all_task_data(tasks_file))
    /\ UNCHANGED <<tasks_file, user_file, zero_pad_year, logged_in_user, my_tasks, upd,
                   user_data, no_writer_since, appended, edits, cx, reporting>>

\* menu gr without the test for admin
generate_reports_any_user(p) ==
    /\ pc[p] = "menu"
    /\ ReportsWritten(p, TRUE)

\* menu gr, admin
generate_reports(p) ==
    /\ pc[p] = "menu"
    /\ logged_in_user[p].username = Str_admin
    /\ ReportsWritten(p, TRUE)

\* menu ds, admin: the reports are regenerated, then the report menu
display_statistics(p) ==
    /\ pc[p] = "menu"
    /\ logged_in_user[p].username = Str_admin
    /\ ReportsWritten(p, FALSE)

\* display_statistics: int(input(..)) and the report shown
SelectReport(p) ==
    /\ pc[p] = "statistics"
    /\ \E selected_report \in ReportInputs :
         IF ~IsDigit(selected_report[1])
         THEN Crash(p, "ValueError")
         ELSE IF selected_report = <<"1">>
         THEN screen' = [screen EXCEPT ![p] = <<"task_overview">>] /\ pc' = pc
         ELSE IF selected_report = <<"2">>
         THEN screen' = [screen EXCEPT ![p] = <<"user_overview">>] /\ pc' = pc
         ELSE screen' = [screen EXCEPT ![p] = <<>>] /\ pc' = [pc EXCEPT ![p] = "menu"]
    /\ UNCHANGED <<tasks_file, user_file, zero_pad_year, logged_in_user, my_tasks, upd,
                   user_data, report, no_writer_since, appended, edits, cx, reporting>>

\* the menu's default case: a command the menu does not know, or r, gr or ds entered
\* by a user other than admin; the screen shows the command typed and the message
MenuInputs == {"r", "gr", "ds", "x"}
WrongChoice(p) ==
    /\ pc[p] = "menu"
    /\ \E menu \in MenuInputs :
         /\ menu = "x" \/ logged_in_user[p].username # Str_admin
         /\ screen' = [screen EXCEPT ![p] = <<menu, "wrong_choice">>]
    /\ UNCHANGED <<tasks_file, user_file, zero_pad_year, pc, logged_in_user, my_tasks,
                   upd, user_data, report, no_writer_since, appended, edits, cx, reporting>>

\* menu e
Exit(p) ==
    /\ pc[p] = "menu"
    /\ pc' = [pc EXCEPT ![p] = "exited"]
    /\ screen' = [screen EXCEPT ![p] = <<"goodbye">>]
    /\ UNCHANGED <<tasks_file, user_file, zero_pad_year, logged_in_user, my_tasks, upd,
                   user_data, report, no_writer_since, appended, edits, cx, reporting>>

\* the program is run again on a terminal where it has ended
Start(p) ==
    /\ pc[p] \in {"exited", "crashed"}
    /\ pc' = [pc EXCEPT ![p] = "login"]
    /\ logged_in_user' = [logged_in_user EXCEPT ![p] = NoUser]
    /\ my_tasks' = [my_tasks EXCEPT ![p] = <<>>]
    /\ upd' = [upd EXCEPT ![p] = NoUpdate]
    /\ screen' = [screen EXCEPT ![p] = <<>>]
    /\ user_data' = [user_data EXCEPT ![p] = {}]
    /\ no_writer_since' = [no_writer_since EXCEPT ![p] = TRUE]
    /\ UNCHANGED <<tasks_file, user_file, zero_pad_year, report, appended, edits, cx, reporting>>

-----------------------------------------------------------------------------
(* Two sessions on the task file: login, add_task and view_mine *)

\* the store as the program creates it, or a deployment's store with two users and
\* one task. Every date these sessions handle has a four-digit year, for which
\* strftime gives the same text with and without padding: one platform is explored.
Init ==
    /\ \/ tasks_file = <<>> /\ user_file = DefaultUsers
       \/ tasks_file = SeedTasks /\ user_file = SeedUsers
    /\ zero_pad_year = FALSE
    /\ SessionsAtLogin
    /\ cx = NoCodec

Next ==
    \E p \in Procs :
        \/ Login(p)
        \/ add_task(p)
        \/ view_mine(p)
        \/ SelectBack(p)
        \/ SelectNothing(p)
        \/ SelectComplete(p)
        \/ SelectEditCompleted(p)
        \/ SelectEditAssignee(p)
        \/ SelectEditDueDate(p)
        \/ EnterDueDate(p)
        \/ UpdateOpen(p)
        \/ UpdateWrite(p)

Spec == Init /\ [][Next]_vars

-----------------------------------------------------------------------------
(* One terminal, every menu command, the program run again after it ends *)

InitSession ==
    /\ \/ tasks_file = <<>> /\ user_file = DefaultUsers
       \/ tasks_file = SeedTasks /\ user_file = SeedUsers
    /\ zero_pad_year \in BOOLEAN
    /\ SessionsAt({1})
    /\ cx = NoCodec

NextSession ==
    \E p \in Procs :
        \/ Login(p)
        \/ reg_user(p)
        \/ User_new(p)
        \/ add_task(p)
        \/ view_all(p)
        \/ view_mine(p)
        \/ SelectBack(p)
        \/ SelectNothing(p)
        \/ SelectComplete(p)
        \/ SelectEditCompleted(p)
        \/ SelectEditAssignee(p)
        \/ SelectEditDueDate(p)
        \/ EnterDueDate(p)
        \/ UpdateOpen(p)
        \/ UpdateWrite(p)
        \/ generate_reports(p)
        \/ display_statistics(p)
        \/ SelectReport(p)
        \/ WrongChoice(p)
        \/ Exit(p)
        \/ Start(p)

SpecSession == InitSession /\ [][NextSession]_vars

-----------------------------------------------------------------------------
(* Two terminals on user.txt: the program started where the files are missing,
   login, registration by admin and add_task *)

\* a file that does not exist; no contents of a file equal it
NoFile == <<"absent">>

\* the program starts: os.path.exists("user.txt")
StartProgram(p) ==
    /\ pc[p] = "off"
    /\ pc' = [pc EXCEPT ![p] = IF user_file = NoFile THEN "init_user" ELSE "init_tasks"]
    /\ UNCHANGED <<tasks_file, user_file, zero_pad_year, logged_in_user, my_tasks, upd,
                   screen, user_data, report, no_writer_since, appended, edits, cx, reporting>>

\* open("user.txt", "w") and the default admin account written
InitUserFile(p) ==
    /\ pc[p] = "init_user"
    /\ user_file' = DefaultUsers
    /\ pc' = [pc EXCEPT ![p] = "init_tasks"]
    /\ UNCHANGED <<tasks_file, zero_pad_year, logged_in_user, my_tasks, upd,
                   screen, user_data, report, no_writer_since, appended, edits, cx, reporting>>

\* tasks.txt created empty when it does not exist, then the login prompt
InitTasksFile(p) ==
    /\ pc[p] = "init_tasks"
    /\ tasks_file' = IF tasks_file = NoFile THEN <<>> ELSE tasks_file
    /\ pc' = [pc EXCEPT ![p] = "login"]
    /\ UNCHANGED <<user_file, zero_pad_year, logged_in_user, my_tasks, upd,
                   screen, user_data, report, no_writer_since, appended, edits, cx, reporting>>

InitUsers ==
    /\ tasks_file = NoFile
    /\ user_file = NoFile
    /\ zero_pad_year = FALSE
    /\ SessionsAt({})
    /\ cx = NoCodec

NextUsers ==
    \E p \in Procs :
        \/ StartProgram(p)
        \/ InitUserFile(p)
        \/ InitTasksFile(p)
        \/ Login(p)
        \/ reg_user(p)
        \/ User_new(p)
        \/ add_task(p)
        \/ Exit(p)

SpecUsers == InitUsers /\ [][NextUsers]_vars

-----------------------------------------------------------------------------
(* generate_reports read by read, beside a session that adds tasks: its own read
   of tasks.txt, then for each user the two reads of User.stats *)

\* generate_reports up to its loop over the users: task_overview.txt is written from
\* the first read of tasks.txt, then user.txt is read
ReportsUsersRead(p, overview, read) ==
    IF read.exc # "none"
    THEN Crash(p, read.exc) /\ report' = overview /\ UNCHANGED reporting
    ELSE /\ report' = overview
         /\ reporting' = [reporting EXCEPT ![p] =
                              [NoReporting EXCEPT !.user_data = read.users,
                                                  !.total_users = Len(read.users)]]
         /\ pc' = [pc EXCEPT ![p] = "stats_total"]
         /\ screen' = [screen EXCEPT ![p] = <<>>]

ReportsTasksRead(p, read) ==
    IF read.exc # "none"
    THEN Crash(p, read.exc) /\ UNCHANGED <<report, reporting>>
    ELSE IF read.tasks = <<>>
    THEN Crash(p, "ZeroDivisionError") /\ UNCHANGED <<report, reporting>>
    ELSE ReportsUsersRead(p, TaskOverview(read.tasks), get_all_user_data(user_file))

\* menu gr, admin
ReportsStart(p) ==
    /\ pc[p] = "menu"
    /\ logged_in_user[p].username = Str_admin
    /\ ReportsTasksRead(p, get_all_task_data(tasks_file))
    /\ UNCHANGED <<tasks_file, user_file, zero_pad_year, logged_in_user, my_tasks, upd,
                   user_data, no_writer_since, appended, edits, cx>>

\* User.stats: total_tasks = get_all_task_data()
StatsTotalRead(p, read) ==
    IF read.exc # "none"
    THEN Crash(p, read.exc) /\ UNCHANGED reporting
    ELSE /\ reporting' = [reporting EXCEPT ![p].total_tasks = read.tasks]
         /\ pc' = [pc EXCEPT ![p] = "stats_user"]
         /\ screen' = screen

StatsTotal(p) ==
    /\ pc[p] = "stats_total"
    /\ StatsTotalRead(p, get_all_task_data(tasks_file))
    /\ UNCHANGED <<tasks_file, user_file, zero_pad_year, logged_in_user, my_tasks, upd,
                   user_data, report, no_writer_since, appended, edits, cx>>

\* generate_reports: the statistics of one more user collected; after the last user
\* user_overview.txt is written and the confirmation shown
StatsCollected(p, user_statistics) ==
    IF Len(reporting[p].user_data) > 1
    THEN /\ reporting' = [reporting EXCEPT ![p].user_data = Tail(reporting[p].user_data),
                                           ![p].total_tasks = <<>>,
                                           ![p].user_statistics = user_statistics]
         /\ pc' = [pc EXCEPT ![p] = "stats_total"]
         /\ UNCHANGED <<report, screen>>
    ELSE /\ report' = [report EXCEPT !.total_users = reporting[p].total_users,
                                     !.user_statistics = user_statistics]
         /\ reporting' = [reporting EXCEPT ![p] = NoReporting]
         /\ pc' = [pc EXCEPT ![p] = "menu"]
         /\ screen' = [screen EXCEPT ![p] = <<"reports_generated">>]

\* User.stats: total_user_tasks = self.tasks(), a second read of tasks.txt
StatsUserRead(p, read) ==
    IF read.exc # "none"
    THEN Crash(p, read.exc) /\ UNCHANGED <<report, reporting>>
    ELSE StatsCollected(p, Append(reporting[p].user_statistics,
                                  StatsOf(reporting[p].user_data[1].username,
                                          reporting[p].total_tasks,
                                          User_tasks(reporting[p].user_data[1], read.tasks))))

StatsUser(p) ==
    /\ pc[p] = "stats_user"
    /\ StatsUserRead(p, get_all_task_data(tasks_file))
    /\ UNCHANGED <<tasks_file, user_file, zero_pad_year, logged_in_user, my_tasks, upd,
                   user_data, no_writer_since, appended, edits, cx>>

InitReports ==
    /\ tasks_file = SeedTasks
    /\ user_file = SeedUsers
    /\ zero_pad_year = FALSE
    /\ SessionsAtLogin
    /\ cx = NoCodec

NextReports ==
    \E p \in Procs :
        \/ Login(p)
        \/ add_task(p)
        \/ ReportsStart(p)
        \/ StatsTotal(p)
        \/ StatsUser(p)

SpecReports == InitReports /\ [][NextReports]_vars

-----------------------------------------------------------------------------
(* Task.update_assignee called with any name, by a caller that has not looked the
   name up as view_mine does *)

update_assignee(p) ==
    /\ pc[p] = "select"
    /\ \E option \in 1..Len(my_tasks[p]), new_username \in NameInputs :
         Task_update_assignee(p, my_tasks[p][option], new_username)

InitMethods ==
    /\ tasks_file = SeedTasks
    /\ user_file = SeedUsers
    /\ zero_pad_year = FALSE
    /\ SessionsAt({1})
    /\ cx = NoCodec

NextMethods ==
    \E p \in Procs :
        \/ Login(p)
        \/ add_task(p)
        \/ view_mine(p)
        \/ SelectBack(p)
        \/ update_assignee(p)
        \/ UpdateOpen(p)
        \/ UpdateWrite(p)
        \/ Exit(p)
        \/ Start(p)

SpecMethods == InitMethods /\ [][NextMethods]_vars

-----------------------------------------------------------------------------
(* sort_tasks applied to task lists *)

MaxListLen == 3

Task_A == Task(Str_al, <<"A">>, <<"d">>, D(2030, 1, 10), D(2026, 11, 1), FALSE)
Task_B == Task(Str_al, <<"B">>, <<"d">>, D(2030, 1, 5), D(2026, 11, 1), TRUE)
Task_C == Task(Str_al, <<"C">>, <<"d">>, D(2030, 1, 10), D(2026, 11, 1), TRUE)
Task_E == Task(Str_al, <<"E">>, <<"d">>, D(2030, 1, 5), D(2026, 11, 1), FALSE)
Task_F == Task(Str_al, <<"F">>, <<"d">>, D(2030, 1, 10), D(2026, 11, 1), FALSE)
Task_G == Task(Str_al, <<"G">>, <<"d">>, D(2026, 10, 1), D(2026, 9, 1), FALSE)
Task_H == Task(Str_admin, <<"H">>, <<"d">>, D(2026, 10, 1), D(2026, 9, 1), TRUE)
ListTasks == {Task_A, Task_B, Task_C, Task_E, Task_F, Task_G, Task_H}
TaskLists == UNION {[1..n -> ListTasks] : n \in 0..MaxListLen}

\* a task list, as view_all or view_mine hands it to sort_tasks
TaskListGiven ==
    /\ cx.step = "start"
    /\ \E task_list \in TaskLists :
         cx' = [step |-> "list", kind |-> "list", rec |-> task_list, line |-> <<>>,
                got |-> [exc |-> "none"]]
    /\ UNCHANGED <<tasks_file, user_file, zero_pad_year, session_vars>>

SortTasks ==
    /\ cx.step = "list"
    /\ cx' = [cx EXCEPT !.step = "sorted",
                        !.got = [exc |-> "none", tasks |-> sort_tasks(cx.rec)]]
    /\ UNCHANGED <<tasks_file, user_file, zero_pad_year, session_vars>>

\* generate_reports on the list: its counts, then the percentages, which divide by
\* the number of tasks
OverviewTasks ==
    /\ cx.step = "list"
    /\ cx' = [cx EXCEPT !.step = "overview",
                        !.got = [exc |-> IF cx.rec = <<>> THEN "ZeroDivisionError"
                                         ELSE "none",
                                 counts |-> TaskCounts(cx.rec)]]
    /\ UNCHANGED <<tasks_file, user_file, zero_pad_year, session_vars>>

InitLists ==
    /\ tasks_file = <<>>
    /\ user_file = DefaultUsers
    /\ zero_pad_year = FALSE
    /\ SessionsAtLogin
    /\ cx = NoCodec

NextLists ==
    \/ TaskListGiven
    \/ SortTasks
    \/ OverviewTasks

SpecLists == InitLists /\ [][NextLists]_vars

-----------------------------------------------------------------------------
(* What the properties below observe of a session and of tasks.txt *)

\* Task.update, line 177: original_task_string equals the encoding of a task re-read
Found(u) ==
    \E i \in 1..Len(u.task_list) : u.original_task_string = Task_to_string(u.task_list[i])

\* session p has returned from a Task.update(original_task_string) call that got past
\* its re-read, and has not reloaded its tasks since
Finished(p) == pc[p] = "view_mine" /\ upd[p].task_list # <<>>

\* the encodings of the tasks Task.update re-read
Encoded(task_list) == [i \in 1..Len(task_list) |-> Task_to_string(task_list[i])]

Lines(file) == Split(file, <<NL>>)
HasLine(file, line) == \E i \in 1..Len(Lines(file)) : Lines(file)[i] = line

\* the title field of a stored line, and whether the file holds a line with that title
Fields(line) == Split(line, Delim)
HasTitle(file, title) ==
    \E i \in 1..Len(Lines(file)) :
        Len(Fields(Lines(file)[i])) >= 2 /\ Fields(Lines(file)[i])[2] = title

\* no session is between Task.update's open("tasks.txt", "w") and the close that writes
Quiescent == \A p \in Procs : pc[p] # "update_write"

-----------------------------------------------------------------------------
(* Concurrent updates of tasks.txt, under Spec *)

\* C1: at most one winner. Two sessions that have each completed an update against
\* the same old encoded line with different new values have not both found the old
\* line and written their replacement over it.
AtMostOneWinner ==
    \A p \in Procs, q \in Procs :
        (/\ p # q
         /\ Finished(p) /\ Finished(q)
         /\ upd[p].original_task_string = upd[q].original_task_string
         /\ upd[p].self # upd[q].self)
        => ~(Found(upd[p]) /\ Found(upd[q]))

\* C2: a stale token leaves storage unchanged. When a session's update did not find
\* its old line in the file it re-read, and no other session has written the file
\* since that re-read, the file after the call is the file the call re-read.
StaleTokenLeavesFileUnchanged ==
    \A p \in Procs :
        (Finished(p) /\ ~Found(upd[p]) /\ no_writer_since[p])
        => tasks_file = upd[p].task_data

\* C3: a conflict is reported. A completed update that did not find its old line has
\* told the user of the problem and has not told the user of a success.
ConflictReported ==
    \A p \in Procs :
        (Finished(p) /\ ~Found(upd[p]))
        => /\ \E i \in 1..Len(screen[p]) : screen[p][i] = "problem"
           /\ \A i \in 1..Len(screen[p]) : screen[p][i] # "success"

\* C4: commit only on difference. A session that has decided to overwrite tasks.txt
\* holds a candidate list that differs from the encoding of the list it re-read.
CommitOnlyOnDifference ==
    \A p \in Procs :
        pc[p] \in {"update_open", "update_write"}
        => upd[p].new_task_list # Encoded(upd[p].task_list)

\* C5: unrelated updates do not clobber each other. When two sessions have each
\* completed an update that found its old line, and the two updates are of tasks
\* with different titles, tasks.txt holds both new lines.
UnrelatedUpdatesBothPresent ==
    \A p \in Procs, q \in Procs :
        (/\ p # q
         /\ Finished(p) /\ Finished(q)
         /\ Found(upd[p]) /\ Found(upd[q])
         /\ upd[p].self.title # upd[q].self.title)
        => /\ HasLine(tasks_file, Task_to_string(upd[p].self))
           /\ HasLine(tasks_file, Task_to_string(upd[q].self))

\* C6: tasks are never deleted. Whenever no overwrite of tasks.txt is in progress,
\* every task add_task has appended still has a line in the file.
TasksNeverDeleted ==
    Quiescent =>
        \A i \in 1..Len(appended) : HasTitle(tasks_file, Fields(appended[i])[2])

-----------------------------------------------------------------------------
(* The end-to-end scenario, under SpecSession *)

\* user.txt of a fresh store after alice is registered, and the task created for her
FreshWithAlice == DefaultUsers \o <<NL>> \o User_to_string(User(Str_alice, Str_pw1))
AliceTask == Task(Str_alice, <<"T", "3">>, <<"d">>, D(2030, 1, 5), Today, FALSE)

\* C7: end to end from a fresh store. Once alice is registered and one task has been
\* created for her, her tasks are exactly that task, not completed; and once that
\* task has been marked complete, the generated task overview counts 1 completed
\* and 0 incomplete tasks.
EndToEnd ==
    /\ (/\ user_file = FreshWithAlice
        /\ appended = <<Task_to_string(AliceTask)>>
        /\ edits = 0)
       => /\ get_all_task_data(tasks_file).exc = "none"
          /\ User_tasks(User(Str_alice, Str_pw1), get_all_task_data(tasks_file).tasks)
               = <<AliceTask>>
    /\ (/\ user_file = FreshWithAlice
        /\ appended = <<Task_to_string(AliceTask)>>
        /\ edits = 1
        /\ \E p \in Procs : screen[p] = <<"reports_generated">>)
       => /\ report.total_completed_tasks = 1
          /\ report.total_uncompleted_tasks = 0

-----------------------------------------------------------------------------
(* The codec and the file readers, under SpecCodec *)

\* C8: blank input is tolerated. Reading an empty tasks file gives the empty list
\* without an exception, and a trailing blank line gives no record and no exception.
BlankInputTolerated ==
    (cx.step = "read" /\ cx.kind = "task")
    => /\ cx.line = <<>>
          => (cx.got.exc = "none" /\ cx.got.tasks = <<>>)
       /\ cx.line = CodecLine \o <<NL>>
          => (cx.got.exc = "none" /\ Len(cx.got.tasks) = 1)

\* C9: the round-trip law. Decoding the encoding of a valid Task or User, one whose
\* string fields do not hold the delimiter, raises nothing and gives the record back.
RoundTrip ==
    cx.step = "decoded"
    => /\ cx.got.exc = "none"
       /\ IF cx.kind = "task" THEN cx.got.task = cx.rec ELSE cx.got.user = cx.rec

\* a task line that is not six fields, or whose dates strptime rejects, or whose
\* completed field is neither Yes nor No
MalformedTaskLine(line) ==
    \/ Len(Fields(line)) # 6
    \/ strptime(Fields(line)[4]).exc # "none"
    \/ strptime(Fields(line)[5]).exc # "none"
    \/ Fields(line)[6] \notin {Yes, No}

\* C10: decode rejects malformed lines. Decoding a malformed task line raises, and
\* so does decoding a user line that is not two fields.
DecodeRejectsMalformed ==
    cx.step = "parsed"
    => IF cx.kind = "task"
       THEN MalformedTaskLine(cx.line) => cx.got.exc # "none"
       ELSE Len(Fields(cx.line)) # 2 => cx.got.exc # "none"

-----------------------------------------------------------------------------
(* Delimiter safety, under SpecSession *)

\* C11: delimiter safety. Every record written has string fields free of ", ": a
\* record of n fields joined by ", " splits into exactly n fields just when none of
\* its fields holds ", ". So every line of user.txt has two fields, every line
\* add_task has appended has six, and so has every line of a candidate list that
\* Task.update is about to write or has written.
DelimiterSafety ==
    /\ \A i \in 1..Len(Lines(user_file)) : Len(Fields(Lines(user_file)[i])) = 2
    /\ \A i \in 1..Len(appended) : Len(Fields(appended[i])) = 6
    /\ \A p \in Procs : \A i \in 1..Len(upd[p].new_task_list) :
           Len(Fields(upd[p].new_task_list[i])) = 6

\* a user has been registered, a task added and an edit written, each after an
\* input holding ", " was offered at the prompts
DelimiterSafetyWitness ==
    /\ Len(Lines(user_file)) > Len(Lines(SeedUsers))
    /\ Len(appended) = 1
    /\ \E p \in Procs : Finished(p) /\ Found(upd[p])

-----------------------------------------------------------------------------
(* The order sort_tasks gives, under SpecLists *)

Sorted == cx.step = "sorted"

\* the tasks of a list, counted
RECURSIVE BagOf(_)
BagOf(task_list) ==
    IF task_list = <<>> THEN EmptyBag
    ELSE BagOf(Tail(task_list)) (+) SetToBag({Head(task_list)})

\* C12 as stated: the sorted list has every incomplete task before every completed
\* task, and [A, B, C] comes out as [A, C, B].
IncompleteBeforeCompleted ==
    Sorted =>
        /\ \A i \in 1..Len(cx.got.tasks), j \in 1..Len(cx.got.tasks) :
               (~cx.got.tasks[i].completed /\ cx.got.tasks[j].completed) => i < j
        /\ cx.rec = <<Task_A, Task_B, Task_C>> => cx.got.tasks = <<Task_A, Task_C, Task_B>>

\* C12: group order of sort_tasks. The sorted list holds the tasks of the list given,
\* every completed task before every incomplete task, and [A(due 10, incomplete),
\* B(due 5, complete), C(due 10, complete)] comes out as [C, B, A].
CompletedBeforeIncomplete ==
    Sorted =>
        /\ BagOf(cx.got.tasks) = BagOf(cx.rec)
        /\ \A i \in 1..Len(cx.got.tasks), j \in 1..Len(cx.got.tasks) :
               (cx.got.tasks[i].completed /\ ~cx.got.tasks[j].completed) => i < j
        /\ cx.rec = <<Task_A, Task_B, Task_C>> => cx.got.tasks = <<Task_C, Task_B, Task_A>>

SortedABC == Sorted /\ cx.rec = <<Task_A, Task_B, Task_C>>

-----------------------------------------------------------------------------
(* The reports, under SpecSession *)

\* C13: zero-total guard. When tasks.txt holds no tasks, generating the reports (menu
\* gr, or menu ds which regenerates them) does not end the program with an
\* exception and leaves a report that shows zero tasks.
ZeroTotalGuard ==
    [][\A p \in Procs :
          (tasks_file = <<>> /\ (generate_reports(p) \/ display_statistics(p)))
              => (pc'[p] # "crashed" /\ report'.written /\ report'.total_tasks = 0)]_vars

-----------------------------------------------------------------------------
(* Task.update_assignee, under SpecMethods *)

\* C14: reassignment to an unknown user is rejected. A call of update_assignee with
\* a name that is not a username of user.txt shows the error prompt, leaves
\* tasks.txt as it is, starts no write of tasks.txt and shows no success message.
UnknownAssigneeRejected ==
    [][\A p \in Procs : \A option \in 1..Len(my_tasks[p]), new_username \in NameInputs :
          (/\ pc[p] = "select"
           /\ new_username \notin Usernames(user_file)
           /\ Task_update_assignee(p, my_tasks[p][option], new_username))
              => /\ tasks_file' = tasks_file
                 /\ pc'[p] = "view_mine"
                 /\ screen'[p] = <<"no_such_user">>
                 /\ upd'[p] = upd[p]]_vars

\* a call with the name ghost has returned
UnknownAssigneeTried ==
    \E p \in Procs : pc[p] = "view_mine" /\ screen[p] = <<"no_such_user">>

-----------------------------------------------------------------------------
(* user.txt, under SpecUsers *)

\* the username field of the lines of user.txt
StoredNames == [i \in 1..Len(Lines(user_file)) |-> Fields(Lines(user_file)[i])[1]]

\* C15: usernames stay unique. No two lines of user.txt hold the same username,
\* whatever registrations the two admin sessions have made.
UsernamesUnique ==
    \A i \in 1..Len(StoredNames), j \in 1..Len(StoredNames) :
        StoredNames[i] = StoredNames[j] => i = j

\* C17: user records are append-only. Once user.txt exists, every step leaves each of
\* its lines where it was and as it was; a step may only add lines after them.
UserRecordsAppendOnly ==
    [][user_file # NoFile =>
          /\ Len(Lines(user_file')) >= Len(Lines(user_file))
          /\ \A i \in 1..Len(Lines(user_file)) :
                 Lines(user_file')[i] = Lines(user_file)[i]]_vars

-----------------------------------------------------------------------------
(* The commands kept for admin, under SpecSession *)

\* C16: admin-only operations. While the only running session is logged in as a
\* user other than admin (or not logged in), no step changes user.txt and none
\* writes the report files, whatever the session enters.
AdminOnly ==
    [][\A p \in Procs :
          (/\ logged_in_user[p].username # Str_admin
           /\ \A q \in Procs \ {p} : pc[q] = "off")
              => (user_file' = user_file /\ report' = report)]_vars

\* a user other than admin has entered r, gr or ds at the menu
AdminCommandTried ==
    \E p \in Procs :
        /\ logged_in_user[p] # NoUser
        /\ logged_in_user[p].username # Str_admin
        /\ screen[p] \in {<<"r", "wrong_choice">>, <<"gr", "wrong_choice">>,
                          <<"ds", "wrong_choice">>}

-----------------------------------------------------------------------------
(* What a reader of tasks.txt can find, under Spec *)

\* C18: no partially written state. While a session is committing an update and no
\* other session has written since its re-read, tasks.txt holds either the contents
\* the session re-read or the contents it is writing, so a reader finds one of the
\* two and never a truncated file.
NoPartialWrite ==
    \A p \in Procs :
        (pc[p] = "update_write" /\ no_writer_since[p])
            => \/ tasks_file = upd[p].task_data
               \/ tasks_file = Join(upd[p].new_task_list, <<NL>>)

-----------------------------------------------------------------------------
(* The statistics of each user in the reports, under SpecSession *)

\* C19: per-user statistics asymmetry. In the statistics generate_reports has
\* collected, a user with no task has the percentage of all tasks, equal to 0, and
\* none of the completed, pending and overdue percentages; a user with at least one
\* task has all four.
StatsAsymmetry ==
    \A i \in 1..Len(report.user_statistics) :
        IF report.user_statistics[i].total_user_tasks = 0
        THEN /\ report.user_statistics[i].total_tasks >= 1
             /\ "percentage_of_total_tasks" \in DOMAIN report.user_statistics[i]
             /\ report.user_statistics[i].percentage_of_total_tasks = 0
             /\ DOMAIN report.user_statistics[i] \cap PercentageKeys = {}
        ELSE ({"percentage_of_total_tasks"} \cup PercentageKeys)
                 \subseteq DOMAIN report.user_statistics[i]

\* the reports hold the statistics of a user without tasks and of a user with one
StatsOfBothKinds ==
    /\ \E i \in 1..Len(report.user_statistics) :
           report.user_statistics[i].total_user_tasks = 0
    /\ \E i \in 1..Len(report.user_statistics) :
           report.user_statistics[i].total_user_tasks > 0

-----------------------------------------------------------------------------
(* The frame of an update, under Spec *)

\* C20: frame of a matching update. When a session's update has found the old
\* encoded line and written, and no other session has written since its re-read,
\* tasks.txt has as many lines as the contents re-read, every line that was equal to
\* the old encoded line is now the new encoded record, and every other line is as
\* it was.
MatchingUpdateFrame ==
    \A p \in Procs :
        (Finished(p) /\ Found(upd[p]) /\ no_writer_since[p])
            => /\ Len(Lines(tasks_file)) = Len(Lines(upd[p].task_data))
               /\ \A i \in 1..Len(Lines(upd[p].task_data)) :
                      Lines(tasks_file)[i] =
                          IF Lines(upd[p].task_data)[i] = upd[p].original_task_string
                          THEN Task_to_string(upd[p].self)
                          ELSE Lines(upd[p].task_data)[i]

-----------------------------------------------------------------------------
(* A task added and then listed, under SpecSession *)

\* the list read back ends with the task whose line was appended, not completed, and
\* begins with the tasks of the file as it was before the append
EndsWithAppended(read, line, before) ==
    /\ read.exc = "none"
    /\ Len(read.tasks) >= 1
    /\ Task_to_string(read.tasks[Len(read.tasks)]) = line
    /\ ~read.tasks[Len(read.tasks)].completed
    /\ \/ before = <<>> /\ Len(read.tasks) = 1
       \/ /\ before # <<>>
          /\ get_all_task_data(before).exc = "none"
          /\ SubSeq(read.tasks, 1, Len(read.tasks) - 1) = get_all_task_data(before).tasks

\* C21: append then list. After add_task has appended a task, and before any edit,
\* get_all_task_data succeeds and returns the tasks stored before, followed by the
\* new task with completed = False; the store before may be empty.
AppendThenList ==
    (Len(appended) = 1 /\ edits = 0)
        => EndsWithAppended(get_all_task_data(tasks_file), appended[1],
                            SubSeq(tasks_file, 1, Len(tasks_file) - Len(appended[1]) - 1))

-----------------------------------------------------------------------------
(* The documented order and the stability of sort_tasks, under SpecLists *)

Pending(task_list) == {i \in 1..Len(task_list) : ~task_list[i].completed}

\* C22: sort_tasks order as documented. The sorted list has all completed tasks
\* first and all pending tasks after them, and when it holds a pending task its last
\* element is pending and no pending task is due earlier.
DocumentedOrder ==
    Sorted =>
        /\ \A i \in 1..Len(cx.got.tasks), j \in 1..Len(cx.got.tasks) :
               (i < j /\ ~cx.got.tasks[i].completed) => ~cx.got.tasks[j].completed
        /\ Pending(cx.got.tasks) # {} =>
               /\ Len(cx.got.tasks) \in Pending(cx.got.tasks)
               /\ \A i \in Pending(cx.got.tasks) :
                      DateKey(cx.got.tasks[Len(cx.got.tasks)].due_date)
                          <= DateKey(cx.got.tasks[i].due_date)

\* a list with a completed task between two pending tasks, the earliest due first
SortedECA == Sorted /\ cx.rec = <<Task_E, Task_C, Task_A>>

\* the ways to take the n elements of a list in another order
Orderings(n) == {f \in [1..n -> 1..n] : \A a \in 1..n, b \in 1..n : f[a] = f[b] => a = b}

\* C23: stable two-key sort. The sorted list is the input taken in another order, in
\* which two tasks with the same completion status are in descending order of due
\* date, and two with the same status and the same due date are in their input order.
StableTwoKeySort ==
    Sorted =>
        /\ Len(cx.got.tasks) = Len(cx.rec)
        /\ \E f \in Orderings(Len(cx.rec)) :
               /\ \A k \in 1..Len(cx.rec) : cx.got.tasks[k] = cx.rec[f[k]]
               /\ \A i \in 1..Len(cx.rec), j \in 1..Len(cx.rec) :
                      (i < j /\ cx.got.tasks[i].completed = cx.got.tasks[j].completed)
                          => /\ DateKey(cx.got.tasks[i].due_date)
                                    >= DateKey(cx.got.tasks[j].due_date)
                             /\ cx.got.tasks[i].due_date = cx.got.tasks[j].due_date
                                    => f[i] < f[j]

\* a list with two pending tasks due the same day, F before A, and an earlier one
SortedFBA == Sorted /\ cx.rec = <<Task_F, Task_B, Task_A>>

-----------------------------------------------------------------------------
(* Whose tasks a session edits, under Spec *)

\* C24: own tasks only. Every task in the list a session has loaded in view_mine is
\* owned by the logged-in user; the old encoded line of every edit the session
\* issues is the line of a task of that list; and at the task prompt no edit has
\* been issued since the list was loaded.
OwnTasksOnly ==
    \A p \in Procs :
        /\ \A i \in 1..Len(my_tasks[p]) :
               my_tasks[p][i].username = logged_in_user[p].username
        /\ upd[p].original_task_string # <<>> =>
               \E i \in 1..Len(my_tasks[p]) :
                   Task_to_string(my_tasks[p][i]) = upd[p].original_task_string
        /\ pc[p] = "select" => upd[p] = NoUpdate

\* a session has written an edit while tasks.txt held a task of another user
EditedBesideOthers ==
    \E p \in Procs :
        /\ Finished(p)
        /\ \E i \in 1..Len(upd[p].task_list) :
               upd[p].task_list[i].username # logged_in_user[p].username

-----------------------------------------------------------------------------
(* Owners of the stored tasks *)

\* C25: referential integrity. The owner field of every task line of tasks.txt (every
\* line that is not blank) is the username of a line of user.txt.
OwnersAreUsers ==
    (tasks_file # NoFile /\ user_file # NoFile) =>
        \A i \in 1..Len(Lines(tasks_file)) :
            Lines(tasks_file)[i] # <<>> =>
                \E j \in 1..Len(Lines(user_file)) :
                    Fields(Lines(user_file)[j])[1] = Fields(Lines(tasks_file)[i])[1]

-----------------------------------------------------------------------------
(* Completed tasks, under Spec *)

\* the lines of a file that record a completed task
CompletedLines(file) ==
    {i \in 1..Len(Lines(file)) :
        /\ Len(Fields(Lines(file)[i])) = 6
        /\ Fields(Lines(file)[i])[6] = Yes}

\* C26: completion is final. A step that leaves tasks.txt with contents (any step but
\* the truncation that starts a write) keeps every line that records a completed
\* task: the file still holds that line, with its owner, its due date and Yes.
CompletionIsFinal ==
    [][tasks_file' # <<>> =>
          \A i \in CompletedLines(tasks_file) :
              HasLine(tasks_file', Lines(tasks_file)[i])]_vars

-----------------------------------------------------------------------------
(* The user overview, under SpecReports *)

\* C27: consistent per-user counts. In every user overview written, each user's
\* count of tasks is at most the total it is divided by, so that the percentage of
\* all tasks (in hundredths of a percent) is at most 100.
PerUserCountsConsistent ==
    \A i \in 1..Len(report.user_statistics) :
        /\ report.user_statistics[i].total_user_tasks
               <= report.user_statistics[i].total_tasks
        /\ report.user_statistics[i].percentage_of_total_tasks <= 10000

-----------------------------------------------------------------------------
(* The task overview, under SpecLists *)

\* C28: the counts of the task overview are consistent. For every task list,
\* completed + incomplete = total, the overdue count is the number of tasks that are
\* not completed and whose due date is before now, hence overdue <= incomplete and
\* no completed task is counted as overdue.
OverviewCountsConsistent ==
    cx.step = "overview" =>
        /\ cx.got.counts.total_completed_tasks + cx.got.counts.total_uncompleted_tasks
               = Len(cx.rec)
        /\ cx.got.counts.total_tasks = Len(cx.rec)
        /\ cx.got.counts.total_overdue_tasks
               = Cardinality({i \in 1..Len(cx.rec) :
                                  /\ ~cx.rec[i].completed
                                  /\ DateKey(cx.rec[i].due_date) <= DateKey(Today)})
        /\ cx.got.counts.total_overdue_tasks <= cx.got.counts.total_uncompleted_tasks

\* the overview of an overdue task, a completed task past its due date and a task
\* due later
OverviewGHA ==
    /\ cx.step = "overview"
    /\ cx.rec = <<Task_G, Task_H, Task_A>>
    /\ cx.got.counts = [total_tasks |-> 3, total_completed_tasks |-> 1,
                        total_uncompleted_tasks |-> 2, total_overdue_tasks |-> 1]

====
